---------------------------- MODULE Spec2Model ----------------------------
(***************************************************************************)
(* A model of generate_image.py: credential loading (load_api_keys), the   *)
(* two provider routines (generate_image_huggingface and                   *)
(* generate_image_openai) and the provider selection of main().            *)
(*                                                                         *)
(* Python values are modelled as follows.                                  *)
(*   - a str is a sequence of characters, each character a one-character   *)
(*     TLA+ string (a non-ASCII character is written as its code point,    *)
(*     "U+00E9");                                                          *)
(*   - an optional value is a sequence of length at most one: None is <<>> *)
(*     and the value v is <<v>>;                                           *)
(*   - print(...) appends one record [msg, arg] to stdout, msg naming the  *)
(*     line printed and arg the text interpolated into it.                 *)
(***************************************************************************)
EXTENDS Naturals, Sequences, FiniteSets

VARIABLES
    pc,            \* the statement of the program about to run
    cmdline,       \* the command line as parsed, before any correction
    args,          \* argparse's namespace (main, line 279)
    api_keys,      \* main's api_keys, the value load_api_keys returned
    result,        \* main's result: None or the saved file's path
    stdout,        \* the lines printed so far
    exit_arg,      \* the argument of the sys.exit reached, None before it
    exit_status,   \* the exit status of the ended process, None while it runs
    calls,         \* the provider routines invoked so far, with their arguments
    hf_posts,      \* the POSTs sent to the inference API, in order
    hf_sleeps,     \* how many times time.sleep(20) ran
    response,      \* generate_image_huggingface's response.status_code
    api_requests,  \* the request_params sent through client.images.generate
    image_data,    \* the image bytes held by the provider routine (their number)
    files,         \* the files the run created under the output directory
    environ,       \* os.environ as read by load_api_keys
    env_file,      \* the .env file beside the script, as read
    cursor_config, \* ~/.cursor/cli-config.json, as read
    keys           \* load_api_keys' local dictionary keys

vars == <<pc, cmdline, args, api_keys, result, stdout, exit_arg, exit_status, calls,
          hf_posts, hf_sleeps, response, api_requests, image_data, files,
          environ, env_file, cursor_config, keys>>

---------------------------------------------------------------------------
(* Bounds of the model. *)

\* the longest sequence of characters drawn for a prompt's variable part
MaxPromptLen == 2
\* the most lines a .env file holds
MaxEnvLines == 2
\* the most bytes an image body holds
MaxBytes == 2

---------------------------------------------------------------------------
(* Python values. *)

None == <<>>

Some(v) == <<v>>

\* bool(x) of an optional str: None and "" are falsy
Truthy(x) == x # None /\ x[1] # <<>>

\* Python's "a or b"
PyOr(a, b) == IF Truthy(a) THEN a ELSE b

\* the sequences over S of length at most n
SeqsUpTo(S, n) == UNION {[1..k -> S] : k \in 0..n}

\* s[:n]
Take(s, n) == IF Len(s) <= n THEN s ELSE SubSeq(s, 1, n)

Digits == {"0", "1", "2", "3", "4", "5", "6", "7", "8", "9"}

UpperCase == {"A", "B", "C", "D", "E", "F", "G", "H", "I", "J", "K", "L", "M",
              "N", "O", "P", "Q", "R", "S", "T", "U", "V", "W", "X", "Y", "Z"}

LowerCase == {"a", "b", "c", "d", "e", "f", "g", "h", "i", "j", "k", "l", "m",
              "n", "o", "p", "q", "r", "s", "t", "u", "v", "w", "x", "y", "z"}

AsciiAlnum == Digits \cup UpperCase \cup LowerCase

\* the other ASCII characters the model draws
AsciiOther == {" ", "-", "_", "/", "?", "\t", "\n", "=", "."}

\* a letter outside ASCII (e with acute accent): isalnum() but not isascii()
NonAsciiAlnum == {"U+00E9"}

\* str.isascii() of one character
IsAscii(c) == c \in AsciiAlnum \cup AsciiOther

\* str.isalnum() of one character
IsAlnum(c) == c \in AsciiAlnum \cup NonAsciiAlnum

\* the characters str.strip() removes
Whitespace == {" ", "\t", "\n"}

RECURSIVE LStrip(_)
LStrip(s) == IF s # <<>> /\ Head(s) \in Whitespace THEN LStrip(Tail(s)) ELSE s

RECURSIVE RStrip(_)
RStrip(s) ==
    IF s # <<>> /\ s[Len(s)] \in Whitespace
    THEN RStrip(SubSeq(s, 1, Len(s) - 1))
    ELSE s

\* str.strip()
Strip(s) == LStrip(RStrip(s))

\* str.replace(old, new) for one-character old and new
Replace(s, old, new) == [i \in 1..Len(s) |-> IF s[i] = old THEN new ELSE s[i]]

---------------------------------------------------------------------------
(* The output file's name (lines 102-106 and 173-178). *)

\* prompt[:50]
PromptPrefixLen == 50

\* datetime.now().strftime("%Y%m%d_%H%M%S"): fifteen characters, none of them
\* taken from the prompt
Timestamp == "YYYYMMDD_HHMMSS"

\* c if (c.isascii() and (c.isalnum() or c in (' ', '-', '_'))) else '_'
SafeChar(c) == IF IsAscii(c) /\ (IsAlnum(c) \/ c \in {" ", "-", "_"}) THEN c ELSE "_"

\* a sanitiser that drops a character it does not keep
RECURSIVE SafePromptDropping(_)
SafePromptDropping(prompt) ==
    LET keep(c) == IsAscii(c) /\ (IsAlnum(c) \/ c \in {" ", "-", "_"})
        RECURSIVE filter(_)
        filter(s) == IF s = <<>> THEN <<>>
                     ELSE IF keep(Head(s)) THEN <<Head(s)>> \o filter(Tail(s))
                     ELSE filter(Tail(s))
    IN  Replace(Strip(filter(Take(prompt, PromptPrefixLen))), " ", "_")

\* safe_prompt: the join over prompt[:50], then .strip().replace(' ', '_')
SafePrompt(prompt) ==
    LET joined == [i \in 1..Len(Take(prompt, PromptPrefixLen)) |-> SafeChar(prompt[i])]
    IN  Replace(Strip(joined), " ", "_")

\* f"{timestamp}_HF_{safe_prompt}.png"; the timestamp, the infix and the
\* extension are one element each
HFFilename(prompt) == <<Timestamp, "_HF_">> \o SafePrompt(prompt) \o <<".png">>

\* f"{timestamp}_{safe_prompt}.png"
OpenAIFilename(prompt) == <<Timestamp, "_">> \o SafePrompt(prompt) \o <<".png">>

\* str(Path(output_dir).expanduser() / filename)
OutputPath(output_dir, filename) == <<output_dir, "/">> \o filename

---------------------------------------------------------------------------
(* load_api_keys (lines 20-54).  A variable's name is one element of a     *)
(* line of the .env file; the other elements are characters.               *)

EnvNames == {"OPENAI_API_KEY", "HUGGINGFACE_API_KEY", "HF_TOKEN"}

\* the non-empty value a source holds under a name: <<source, name's mark>>
Mark(name) ==
    CASE name = "OPENAI_API_KEY" -> "o"
      [] name = "HUGGINGFACE_API_KEY" -> "h"
      [] name = "HF_TOKEN" -> "t"

\* what one name may hold in a source: unset, the empty string, a value
Held(source, name) == {None, Some(<<>>), Some(<<source, Mark(name)>>)}

\* the process environments drawn
Environs == {e \in [EnvNames -> SeqsUpTo({<<>>, <<"e", "o">>, <<"e", "h">>, <<"e", "t">>}, 1)] :
                \A n \in EnvNames : e[n] \in Held("e", n)}

\* the lines of a .env file drawn: NAME= with no value, NAME=value followed by
\* a blank, a comment, and an assignment behind a leading blank
EnvLines ==
    {<<n, "=", "\n">> : n \in EnvNames}
        \cup {<<n, "=", "f", Mark(n), " ", "\n">> : n \in EnvNames}
        \cup {<<"#", "\n">>, <<" ", "OPENAI_API_KEY", "=", "f", "x", "\n">>}

\* the .env files drawn: None when env_file.exists() is false
EnvFiles == {None} \cup {Some(f) : f \in SeqsUpTo(EnvLines, MaxEnvLines)}

\* the 'env' mappings of cli-config.json drawn; a name that is absent or null
\* is None under .get
ConfigEnvs == {e \in [EnvNames -> SeqsUpTo({<<>>, <<"c", "o">>, <<"c", "h">>, <<"c", "t">>}, 1)] :
                  \A n \in EnvNames : e[n] \in Held("c", n)}

NoEnv == [n \in EnvNames |-> None]

\* cli-config.json: absent; present but json.load or config['env'].get raises;
\* parsed with no 'env' key; parsed with an 'env' mapping
CursorConfigs ==
    {[kind |-> k, env |-> NoEnv] : k \in {"absent", "raises", "no_env"}}
        \cup {[kind |-> "env", env |-> e] : e \in ConfigEnvs}

\* os.getenv(name)
GetEnv(e, name) == e[name]

\* line.startswith(prefix)
StartsWith(line, prefix) ==
    Len(line) >= Len(prefix) /\ SubSeq(line, 1, Len(prefix)) = prefix

\* s.split('=', 1)[1], for s holding an '='
RECURSIVE AfterFirstEq(_)
AfterFirstEq(s) == IF Head(s) = "=" THEN Tail(s) ELSE AfterFirstEq(Tail(s))

\* line.strip().split('=', 1)[1]
LineValue(line) == AfterFirstEq(Strip(line))

\* lines 28-29
FromEnviron(e) ==
    [openai |-> GetEnv(e, "OPENAI_API_KEY"),
     huggingface |-> PyOr(GetEnv(e, "HUGGINGFACE_API_KEY"), GetEnv(e, "HF_TOKEN"))]

\* a loop body in which the line's value replaces the one already held
EnvLineOverriding(k, line) ==
    IF StartsWith(line, <<"OPENAI_API_KEY", "=">>)
    THEN [k EXCEPT !.openai = PyOr(Some(LineValue(line)), @)]
    ELSE IF StartsWith(line, <<"HUGGINGFACE_API_KEY", "=">>)
              \/ StartsWith(line, <<"HF_TOKEN", "=">>)
         THEN [k EXCEPT !.huggingface = PyOr(Some(LineValue(line)), @)]
         ELSE k

\* the body of the loop over the .env file's lines (lines 36-39)
EnvLine(k, line) ==
    IF StartsWith(line, <<"OPENAI_API_KEY", "=">>)
    THEN [k EXCEPT !.openai = PyOr(@, Some(LineValue(line)))]
    ELSE IF StartsWith(line, <<"HUGGINGFACE_API_KEY", "=">>)
              \/ StartsWith(line, <<"HF_TOKEN", "=">>)
         THEN [k EXCEPT !.huggingface = PyOr(@, Some(LineValue(line)))]
         ELSE k

\* lines 33-39: the loop, when the file exists
RECURSIVE EnvLoop(_, _)
EnvLoop(k, lines) ==
    IF lines = <<>> THEN k ELSE EnvLoop(EnvLine(k, Head(lines)), Tail(lines))

FromEnvFile(k, f) == IF f = None THEN k ELSE EnvLoop(k, f[1])

\* a merge in which the configuration file's value replaces the one held
FromCursorConfigOverriding(k, c) ==
    IF c.kind = "env"
    THEN [openai |-> PyOr(c.env["OPENAI_API_KEY"], k.openai),
          huggingface |-> PyOr(PyOr(c.env["HUGGINGFACE_API_KEY"], c.env["HF_TOKEN"]),
                               k.huggingface)]
    ELSE k

\* lines 43-52: the try block; whatever it raises is passed over
FromCursorConfig(k, c) ==
    IF c.kind = "env"
    THEN [openai |-> PyOr(k.openai, c.env["OPENAI_API_KEY"]),
          huggingface |-> PyOr(PyOr(k.huggingface, c.env["HUGGINGFACE_API_KEY"]),
                               c.env["HF_TOKEN"])]
    ELSE k

\* lines 22-25
NoKeys == [openai |-> None, huggingface |-> None]

NotRead == [kind |-> "absent", env |-> NoEnv]

\* the variables main() uses, while load_api_keys is looked at on its own
MainIdle ==
    /\ cmdline = [prompt |-> <<>>, provider |-> "huggingface", hf_model |-> "FLUX.1-schnell",
                  size |-> "1024x1024", quality |-> "standard", model |-> "dall-e-2",
                  output_dir |-> "~/Downloads"]
    /\ args = [prompt |-> <<>>, provider |-> "huggingface", hf_model |-> "FLUX.1-schnell",
               size |-> "1024x1024", quality |-> "standard", model |-> "dall-e-2",
               output_dir |-> "~/Downloads"]
    /\ api_keys = NoKeys
    /\ result = None
    /\ stdout = <<>>
    /\ exit_arg = None
    /\ exit_status = None
    /\ calls = <<>>
    /\ hf_posts = <<>>
    /\ hf_sleeps = 0
    /\ response = None
    /\ api_requests = <<>>
    /\ image_data = None
    /\ files = {}

mainVars == <<cmdline, args, api_keys, result, stdout, exit_arg, exit_status, calls,
              hf_posts, hf_sleeps, response, api_requests, image_data, files>>

keyVars == <<environ, env_file, cursor_config, keys>>

\* the variables load_api_keys uses, before it runs or once it has returned
KeysIdle ==
    /\ environ = NoEnv
    /\ env_file = None
    /\ cursor_config = NotRead
    /\ keys = NoKeys

InitKeys ==
    /\ pc = "keys_environ"
    /\ KeysIdle
    /\ MainIdle

\* lines 28-29
ReadEnviron ==
    /\ pc = "keys_environ"
    /\ \E e \in Environs :
          /\ environ' = e
          /\ keys' = FromEnviron(e)
    /\ pc' = "keys_env_file"
    /\ UNCHANGED <<env_file, cursor_config>>
    /\ UNCHANGED mainVars

\* lines 32-39
ReadEnvFile ==
    /\ pc = "keys_env_file"
    /\ \E f \in EnvFiles :
          /\ env_file' = f
          /\ keys' = FromEnvFile(keys, f)
    /\ pc' = "keys_cursor_config"
    /\ UNCHANGED <<environ, cursor_config>>
    /\ UNCHANGED mainVars

\* lines 42-54: the last source, and the return
ReadCursorConfig ==
    /\ pc = "keys_cursor_config"
    /\ \E c \in CursorConfigs :
          /\ cursor_config' = c
          /\ keys' = FromCursorConfig(keys, c)
    /\ pc' = "keys_returned"
    /\ UNCHANGED <<environ, env_file>>
    /\ UNCHANGED mainVars

NextKeys == ReadEnviron \/ ReadEnvFile \/ ReadCursorConfig

SpecKeys == InitKeys /\ [][NextKeys]_vars

---------------------------------------------------------------------------
(* The command line (lines 227-279) and the output. *)

Providers == {"auto", "huggingface", "openai"}

Sizes == {"1024x1024", "1792x1024", "1024x1792", "256x256", "512x512"}

Qualities == {"standard", "hd"}

Models == {"dall-e-3", "dall-e-2"}

\* the prompt of the naming example: Cat/Space?? 2024
CatPrompt ==
    <<"C", "a", "t", "/", "S", "p", "a", "c", "e", "?", "?", " ", "2", "0", "2", "4">>

\* the prompts main() is run with
MainPrompts == {CatPrompt, <<"a", " ", "b">>}

CommandLines ==
    [prompt : MainPrompts, provider : Providers, hf_model : {"FLUX.1-schnell"},
     size : Sizes, quality : Qualities, model : Models, output_dir : {"~/Downloads"}]

\* what load_api_keys can return for one key: None, "" or a key
KeyResults == {None, Some(<<>>), Some(<<"k">>)}

\* one printed line
Out(msg, arg) == [msg |-> msg, arg |-> arg]

\* lines 72-76
HFHeader(prompt, model) ==
    <<Out("Generating image via Hugging Face...", <<>>), Out("Prompt: {prompt}", prompt),
      Out("Model: {model}", <<model>>), Out("Cost: FREE!", <<>>), Out("", <<>>)>>

\* lines 144-149
OpenAIHeader(prompt, size, quality, model) ==
    <<Out("Generating image via OpenAI DALL-E...", <<>>), Out("Prompt: {prompt}", prompt),
      Out("Size: {size}", <<size>>), Out("Quality: {quality}", <<quality>>),
      Out("Model: {model}", <<model>>), Out("", <<>>)>>

\* line 309, the command suggested
SuggestedCommand(prompt) ==
    Out("   python3 generate_image.py \"{args.prompt}\" --provider openai", prompt)

---------------------------------------------------------------------------
(* Saving the image (lines 108-114 and 180-187). *)

\* how the three steps mkdir, open and write can end
IOOutcomes == {"mkdir_raises", "open_raises", "write_raises", "ok"}

\* how saving n bytes can end: writing no bytes does not raise
SaveOutcomes(n) == IF n = 0 THEN IOOutcomes \ {"write_raises"} ELSE IOOutcomes

\* the number of bytes in the file when saving n bytes ends other than well:
\* fewer than n when f.write raises part-way
PartialWrites(n) == IF n = 0 THEN {0} ELSE 0..(n - 1)

\* the files after mkdir, open(output_path, 'wb') and f.write(image_data):
\* open creates the file or truncates it, write fills it
Saved(fs, path, written, io) ==
    IF io \in {"mkdir_raises", "open_raises"}
    THEN fs
    ELSE {f \in fs : f.path # path} \cup {[path |-> path, bytes |-> written]}

---------------------------------------------------------------------------
(* generate_image_huggingface (lines 57-123).  The imports of the routines *)
(* (requests, openai) are taken to succeed.                                *)

\* the call main() is in
CurrentCall == calls[Len(calls)]

\* response.status_code of a POST that returned
StatusCodes == {200, 503, 500}

\* how requests.post can end: it raises (None) or returns a status
PostOutcomes == {None} \cup {Some(c) : c \in StatusCodes}

\* lines 79-87: the URL, the headers, the JSON body and the timeout
HFRequest(call) ==
    [url |-> <<"https://api-inference.huggingface.co/models/", call.model>>,
     authorization |-> <<"Bearer ">> \o call.hf_token,
     inputs |-> call.prompt,
     timeout |-> 30]

\* lines 121-123
HFExcept == <<Out("Error generating via HuggingFace: {e}", <<>>)>>

\* lines 82-87, and lines 121-123 when the POST raises
HFPost ==
    /\ pc = "hf_post"
    /\ \E status \in PostOutcomes :
          /\ hf_posts' = Append(hf_posts, [request |-> HFRequest(CurrentCall), status |-> status])
          /\ IF status = None
             THEN /\ stdout' = stdout \o HFExcept
                  /\ result' = None
                  /\ pc' = "hf_returned"
                  /\ UNCHANGED response
             ELSE /\ response' = status
                  /\ pc' = IF status = Some(503) THEN "hf_wait" ELSE "hf_check"
                  /\ UNCHANGED <<stdout, result>>
    /\ UNCHANGED <<cmdline, args, api_keys, exit_arg, exit_status, calls, hf_sleeps,
                   api_requests, image_data, files>>
    /\ UNCHANGED keyVars

\* a retry that waits again for as long as the model is loading
HFWaitAndRetryLooping ==
    /\ pc = "hf_wait"
    /\ hf_sleeps' = hf_sleeps + 1
    /\ \E status \in PostOutcomes :
          /\ hf_posts' = Append(hf_posts, [request |-> HFRequest(CurrentCall), status |-> status])
          /\ IF status = None
             THEN /\ stdout' = stdout \o <<Out("Model is loading on HuggingFace servers", <<>>)>>
                                    \o HFExcept
                  /\ result' = None
                  /\ pc' = "hf_returned"
                  /\ UNCHANGED response
             ELSE /\ stdout' = stdout \o <<Out("Model is loading on HuggingFace servers", <<>>)>>
                  /\ response' = status
                  /\ pc' = IF status = Some(503) THEN "hf_wait" ELSE "hf_check"
                  /\ UNCHANGED result
    /\ UNCHANGED <<cmdline, args, api_keys, exit_arg, exit_status, calls,
                   api_requests, image_data, files>>
    /\ UNCHANGED keyVars

\* lines 89-93: the message, the wait and the second POST
HFWaitAndRetry ==
    /\ pc = "hf_wait"
    /\ hf_sleeps' = hf_sleeps + 1
    /\ \E status \in PostOutcomes :
          /\ hf_posts' = Append(hf_posts, [request |-> HFRequest(CurrentCall), status |-> status])
          /\ IF status = None
             THEN /\ stdout' = stdout \o <<Out("Model is loading on HuggingFace servers", <<>>)>>
                                    \o HFExcept
                  /\ result' = None
                  /\ pc' = "hf_returned"
                  /\ UNCHANGED response
             ELSE /\ stdout' = stdout \o <<Out("Model is loading on HuggingFace servers", <<>>)>>
                  /\ response' = status
                  /\ pc' = "hf_check"
                  /\ UNCHANGED result
    /\ UNCHANGED <<cmdline, args, api_keys, exit_arg, exit_status, calls,
                   api_requests, image_data, files>>
    /\ UNCHANGED keyVars

\* lines 95-100: a status other than 200 ends the call, with the error of the
\* body when response.json() gives one and by the except clause when it raises;
\* a 200 gives the body's bytes
HFCheck ==
    /\ pc = "hf_check"
    /\ IF response # Some(200)
       THEN /\ \E body_is_json \in BOOLEAN :
                  stdout' = stdout \o (IF body_is_json
                                       THEN <<Out("HuggingFace API error: {error_msg}", <<>>)>>
                                       ELSE HFExcept)
            /\ result' = None
            /\ pc' = "hf_returned"
            /\ UNCHANGED image_data
       ELSE /\ \E n \in 0..MaxBytes : image_data' = Some(n)
            /\ pc' = "hf_save"
            /\ UNCHANGED <<stdout, result>>
    /\ UNCHANGED <<cmdline, args, api_keys, exit_arg, exit_status, calls, hf_posts,
                   hf_sleeps, response, api_requests, files>>
    /\ UNCHANGED keyVars

\* lines 102-119, and lines 121-123 when mkdir, open or write raises
HFSave ==
    /\ pc = "hf_save"
    /\ LET path == OutputPath(CurrentCall.output_dir, HFFilename(CurrentCall.prompt))
       IN  \E io \in SaveOutcomes(image_data[1]) :
             \E written \in (IF io = "ok" THEN {image_data[1]}
                             ELSE PartialWrites(image_data[1])) :
                /\ files' = Saved(files, path, written, io)
                /\ IF io = "ok"
                   THEN /\ stdout' = stdout \o <<Out("Successfully saved: {output_path}", path),
                                                 Out("Cost: $0.00 (free)", <<>>)>>
                        /\ result' = Some(path)
                   ELSE /\ stdout' = stdout \o HFExcept
                        /\ result' = None
    /\ pc' = "hf_returned"
    /\ UNCHANGED <<cmdline, args, api_keys, exit_arg, exit_status, calls, hf_posts,
                   hf_sleeps, response, api_requests, image_data>>
    /\ UNCHANGED keyVars

---------------------------------------------------------------------------
(* generate_image_openai (lines 126-209). *)

LargeSizes == {"1792x1024", "1024x1792"}

\* lines 153-162: quality is sent to dall-e-3 only
RequestParams(call) ==
    IF call.model = "dall-e-3"
    THEN [model |-> call.model, prompt |-> call.prompt, size |-> call.size, n |-> 1,
          quality |-> call.quality]
    ELSE [model |-> call.model, prompt |-> call.prompt, size |-> call.size, n |-> 1]

\* lines 204-209
OpenAIExcept ==
    <<Out("Error generating via OpenAI: {e}", <<>>), Out("Error details:", <<>>),
      Out("traceback", <<>>)>>

\* lines 193-200, the cost as f"{cost:.3f}" prints it
Cost(model, size, quality) ==
    IF model = "dall-e-3"
    THEN IF quality = "standard"
         THEN (IF size \in LargeSizes THEN "0.080" ELSE "0.040")
         ELSE (IF size \in LargeSizes THEN "0.160" ELSE "0.080")
    ELSE IF size = "1024x1024" THEN "0.020" ELSE "0.018"

\* lines 152-167, and lines 204-209 when the API call raises or its response
\* holds no URL
OpenAIGenerate ==
    /\ pc = "openai_generate"
    /\ api_requests' = Append(api_requests, RequestParams(CurrentCall))
    /\ \E answered \in BOOLEAN :
          IF answered
          THEN /\ pc' = "openai_download"
               /\ UNCHANGED <<stdout, result>>
          ELSE /\ stdout' = stdout \o OpenAIExcept
               /\ result' = None
               /\ pc' = "openai_returned"
    /\ UNCHANGED <<cmdline, args, api_keys, exit_arg, exit_status, calls, hf_posts,
                   hf_sleeps, response, image_data, files>>
    /\ UNCHANGED keyVars

\* lines 170-171: requests.get(image_url).content, or lines 204-209 when it raises
OpenAIDownload ==
    /\ pc = "openai_download"
    /\ \E got \in {None} \cup {Some(n) : n \in 0..MaxBytes} :
          IF got = None
          THEN /\ stdout' = stdout \o OpenAIExcept
               /\ result' = None
               /\ pc' = "openai_returned"
               /\ UNCHANGED image_data
          ELSE /\ image_data' = got
               /\ pc' = "openai_save"
               /\ UNCHANGED <<stdout, result>>
    /\ UNCHANGED <<cmdline, args, api_keys, exit_arg, exit_status, calls, hf_posts,
                   hf_sleeps, response, api_requests, files>>
    /\ UNCHANGED keyVars

\* lines 173-202, and lines 204-209 when mkdir, open or write raises
OpenAISave ==
    /\ pc = "openai_save"
    /\ LET call == CurrentCall
           path == OutputPath(call.output_dir, OpenAIFilename(call.prompt))
       IN  \E io \in SaveOutcomes(image_data[1]) :
             \E written \in (IF io = "ok" THEN {image_data[1]}
                             ELSE PartialWrites(image_data[1])) :
                /\ files' = Saved(files, path, written, io)
                /\ IF io = "ok"
                   THEN /\ stdout' = stdout \o
                              <<Out("Successfully saved: {output_path}", path),
                                Out("Original URL: {image_url}", <<>>),
                                Out("Request cost: ${cost:.3f}",
                                    <<Cost(call.model, call.size, call.quality)>>)>>
                        /\ result' = Some(path)
                   ELSE /\ stdout' = stdout \o OpenAIExcept
                        /\ result' = None
    /\ pc' = "openai_returned"
    /\ UNCHANGED <<cmdline, args, api_keys, exit_arg, exit_status, calls, hf_posts,
                   hf_sleeps, response, api_requests, image_data>>
    /\ UNCHANGED keyVars

---------------------------------------------------------------------------
(* main (lines 212-361), from the provider selection on. *)

FreeModes == {"auto", "huggingface"}

\* lines 290-295: the arguments of the call
HFCall(a, k) ==
    [routine |-> "generate_image_huggingface", prompt |-> a.prompt,
     hf_token |-> k.huggingface[1], model |-> a.hf_model, output_dir |-> a.output_dir]

\* lines 348-355: the arguments of the call
OpenAICall(a, k) ==
    [routine |-> "generate_image_openai", prompt |-> a.prompt, api_key |-> k.openai[1],
     size |-> a.size, quality |-> a.quality, model |-> a.model,
     output_dir |-> a.output_dir]

\* lines 287-295 and 72-76: the free provider is called
CallHuggingFace ==
    /\ pc = "main_select"
    /\ args.provider \in FreeModes
    /\ Truthy(api_keys.huggingface)
    /\ calls' = Append(calls, HFCall(args, api_keys))
    /\ stdout' = stdout \o HFHeader(args.prompt, args.hf_model)
    /\ pc' = "hf_post"
    /\ UNCHANGED <<cmdline, args, api_keys, result, exit_arg, exit_status, hf_posts,
                   hf_sleeps, response, api_requests, image_data, files>>
    /\ UNCHANGED keyVars

\* lines 307-311
SuggestOpenAI(prompt) ==
    <<Out("You can try paid OpenAI DALL-E API:", <<>>),
      SuggestedCommand(prompt),
      Out("Cost: ~$0.02-0.04 per image (DALL-E 2/3)", <<>>),
      Out("Requires OPENAI_API_KEY in ~/.cursor/cli-config.json", <<>>)>>

\* lines 316-319
HFTokenSetup ==
    <<Out("HuggingFace token not found!", <<>>),
      Out("Add HF_TOKEN to ~/.cursor/cli-config.json:", <<>>),
      Out("{\"env\": {\"HF_TOKEN\": \"your_token\"}}", <<>>),
      Out("Get token: https://huggingface.co/settings/tokens", <<>>)>>

\* lines 333-336
OpenAIKeySetup ==
    <<Out("OpenAI API key not found!", <<>>),
      Out("Add OPENAI_API_KEY to ~/.cursor/cli-config.json:", <<>>),
      Out("{\"env\": {\"OPENAI_API_KEY\": \"sk-your-key\"}}", <<>>),
      Out("Get key: https://platform.openai.com/api-keys", <<>>)>>

\* a report of the missing token that leaves the setup lines out
MissingHFTokenTerse(provider, prompt) ==
    IF provider = "huggingface"
    THEN <<Out("HuggingFace token not found!", <<>>)>>
    ELSE <<Out("HuggingFace token not found", <<>>)>>

\* lines 315-327: what is printed when the token is missing
MissingHFTokenLines(provider, prompt) ==
    IF provider = "huggingface"
    THEN HFTokenSetup
    ELSE <<Out("HuggingFace token not found", <<>>),
           Out("You can try paid OpenAI DALL-E API:", <<>>),
           SuggestedCommand(prompt),
           Out("Cost: ~$0.02-0.04 per image", <<>>),
           Out("Requires OPENAI_API_KEY in ~/.cursor/cli-config.json", <<>>)>>

\* lines 313-328: no token for the free provider
MissingHuggingFaceToken ==
    /\ pc = "main_select"
    /\ args.provider \in FreeModes
    /\ ~Truthy(api_keys.huggingface)
    /\ stdout' = stdout \o MissingHFTokenLines(args.provider, args.prompt)
    /\ exit_arg' = Some(1)
    /\ pc' = "exit"
    /\ UNCHANGED <<cmdline, args, api_keys, result, exit_status, calls, hf_posts,
                   hf_sleeps, response, api_requests, image_data, files>>
    /\ UNCHANGED keyVars

\* lines 297-312 with the sys.exit(1) of the huggingface-only branch left out:
\* control goes on to line 331, whose test fails, and main() returns
AfterHuggingFaceNoExit(provider, prompt, res) ==
    IF res # None
    THEN [out |-> <<>>, exit |-> Some(0)]
    ELSE IF provider = "huggingface"
         THEN [out |-> <<Out("Failed to generate via HuggingFace", <<>>)>>, exit |-> None]
         ELSE [out |-> <<Out("HuggingFace generation failed", <<>>)>> \o SuggestOpenAI(prompt),
               exit |-> Some(1)]

\* lines 297-312 with the sanitised prompt in the suggested command
AfterHuggingFaceSafePrompt(provider, prompt, res) ==
    IF res # None
    THEN [out |-> <<>>, exit |-> Some(0)]
    ELSE IF provider = "huggingface"
         THEN [out |-> <<Out("Failed to generate via HuggingFace", <<>>)>>, exit |-> Some(1)]
         ELSE [out |-> <<Out("HuggingFace generation failed", <<>>)>>
                          \o SuggestOpenAI(SafePrompt(prompt)),
               exit |-> Some(1)]

\* lines 297-312: what is printed and the sys.exit reached once the free
\* provider's routine has returned res
AfterHuggingFace(provider, prompt, res) ==
    IF res # None
    THEN [out |-> <<>>, exit |-> Some(0)]
    ELSE IF provider = "huggingface"
         THEN [out |-> <<Out("Failed to generate via HuggingFace", <<>>)>>, exit |-> Some(1)]
         ELSE [out |-> <<Out("HuggingFace generation failed", <<>>)>> \o SuggestOpenAI(prompt),
               exit |-> Some(1)]

\* a fallback that calls the paid provider by itself when the free one failed
HuggingFaceReturnedFallback ==
    /\ pc = "hf_returned"
    /\ IF result = None /\ args.provider = "auto" /\ Truthy(api_keys.openai)
       THEN /\ calls' = Append(calls, OpenAICall(args, api_keys))
            /\ stdout' = stdout \o OpenAIHeader(args.prompt, args.size, args.quality, args.model)
            /\ pc' = "openai_generate"
            /\ UNCHANGED exit_arg
       ELSE /\ stdout' = stdout \o AfterHuggingFace(args.provider, args.prompt, result).out
            /\ exit_arg' = AfterHuggingFace(args.provider, args.prompt, result).exit
            /\ pc' = "exit"
            /\ UNCHANGED calls
    /\ UNCHANGED <<cmdline, args, api_keys, result, exit_status, hf_posts,
                   hf_sleeps, response, api_requests, image_data, files>>
    /\ UNCHANGED keyVars

\* lines 297-312
HuggingFaceReturned ==
    /\ pc = "hf_returned"
    /\ stdout' = stdout \o AfterHuggingFace(args.provider, args.prompt, result).out
    /\ exit_arg' = AfterHuggingFace(args.provider, args.prompt, result).exit
    /\ pc' = "exit"
    /\ UNCHANGED <<cmdline, args, api_keys, result, exit_status, calls, hf_posts,
                   hf_sleeps, response, api_requests, image_data, files>>
    /\ UNCHANGED keyVars

\* lines 331-337: no key for the paid provider
MissingOpenAIKey ==
    /\ pc = "main_select"
    /\ args.provider \notin FreeModes
    /\ args.provider = "openai"
    /\ ~Truthy(api_keys.openai)
    /\ stdout' = stdout \o OpenAIKeySetup
    /\ exit_arg' = Some(1)
    /\ pc' = "exit"
    /\ UNCHANGED <<cmdline, args, api_keys, result, exit_status, calls, hf_posts,
                   hf_sleeps, response, api_requests, image_data, files>>
    /\ UNCHANGED keyVars

\* a validation that corrects the quality only
ValidateParamsQualityOnly(a) ==
    LET hd == a.model = "dall-e-2" /\ a.quality = "hd"
    IN  [args |-> [a EXCEPT !.quality = IF hd THEN "standard" ELSE @],
         out |-> IF hd THEN <<Out("Warning: DALL-E 2 doesn't support HD quality, using standard",
                                  <<>>)>>
                 ELSE <<>>]

\* lines 339-346: the corrected namespace and the warnings printed
ValidateParams(a) ==
    LET hd == a.model = "dall-e-2" /\ a.quality = "hd"
        large == a.model = "dall-e-2" /\ a.size \in LargeSizes
    IN  [args |-> [a EXCEPT !.quality = IF hd THEN "standard" ELSE @,
                            !.size = IF large THEN "1024x1024" ELSE @],
         out |-> (IF hd
                  THEN <<Out("Warning: DALL-E 2 doesn't support HD quality, using standard",
                             <<>>)>>
                  ELSE <<>>)
                 \o (IF large
                     THEN <<Out("Warning: DALL-E 2 doesn't support large sizes, using 1024x1024",
                                <<>>)>>
                     ELSE <<>>)]

\* lines 331-355 and 141-149: the parameters are validated and the paid
\* provider is called
CallOpenAI ==
    /\ pc = "main_select"
    /\ args.provider \notin FreeModes
    /\ args.provider = "openai"
    /\ Truthy(api_keys.openai)
    /\ args' = ValidateParams(args).args
    /\ calls' = Append(calls, OpenAICall(args', api_keys))
    /\ stdout' = stdout \o ValidateParams(args).out
                        \o OpenAIHeader(args'.prompt, args'.size, args'.quality, args'.model)
    /\ pc' = "openai_generate"
    /\ UNCHANGED <<cmdline, api_keys, result, exit_arg, exit_status, hf_posts,
                   hf_sleeps, response, api_requests, image_data, files>>
    /\ UNCHANGED keyVars

\* lines 357-361
AfterOpenAI(res) ==
    IF res # None
    THEN [out |-> <<>>, exit |-> Some(0)]
    ELSE [out |-> <<Out("Failed to generate image", <<>>)>>, exit |-> Some(1)]

\* lines 357-361
OpenAIReturned ==
    /\ pc = "openai_returned"
    /\ stdout' = stdout \o AfterOpenAI(result).out
    /\ exit_arg' = AfterOpenAI(result).exit
    /\ pc' = "exit"
    /\ UNCHANGED <<cmdline, args, api_keys, result, exit_status, calls, hf_posts,
                   hf_sleeps, response, api_requests, image_data, files>>
    /\ UNCHANGED keyVars

\* lines 364-365: the process ends with the status given to sys.exit, and with
\* status 0 when main() returns without one
ProcessExit ==
    /\ pc = "exit"
    /\ exit_status' = IF exit_arg = None THEN Some(0) ELSE exit_arg
    /\ pc' = "done"
    /\ UNCHANGED <<cmdline, args, api_keys, result, stdout, exit_arg, calls, hf_posts,
                   hf_sleeps, response, api_requests, image_data, files>>
    /\ UNCHANGED keyVars

\* the state once the arguments are parsed and the keys loaded (line 284)
Init ==
    /\ pc = "main_select"
    /\ cmdline \in CommandLines
    /\ args = cmdline
    /\ api_keys \in [openai : KeyResults, huggingface : KeyResults]
    /\ result = None
    /\ stdout = <<>>
    /\ exit_arg = None
    /\ exit_status = None
    /\ calls = <<>>
    /\ hf_posts = <<>>
    /\ hf_sleeps = 0
    /\ response = None
    /\ api_requests = <<>>
    /\ image_data = None
    /\ files = {}
    /\ KeysIdle

Next ==
    \/ CallHuggingFace
    \/ MissingHuggingFaceToken
    \/ HFPost
    \/ HFWaitAndRetry
    \/ HFCheck
    \/ HFSave
    \/ HuggingFaceReturned
    \/ MissingOpenAIKey
    \/ CallOpenAI
    \/ OpenAIGenerate
    \/ OpenAIDownload
    \/ OpenAISave
    \/ OpenAIReturned
    \/ ProcessExit

Spec == Init /\ [][Next]_vars

---------------------------------------------------------------------------
(* The file name computed on its own, over a wider set of prompts. *)

\* the characters a drawn prompt is made of
NameAlphabet == {"a", "Z", "7", " ", "-", "_", "/", "?", "\t", "U+00E9"}

\* one character short of the prefix kept
Pad == [i \in 1..(PromptPrefixLen - 1) |-> "a"]

\* short prompts, prompts around the length of the prefix kept, and the example
NamePrompts ==
    SeqsUpTo(NameAlphabet, MaxPromptLen)
        \cup {Pad \o s : s \in SeqsUpTo(NameAlphabet, MaxPromptLen)}
        \cup {CatPrompt}

InitName ==
    /\ pc = "name"
    /\ cmdline \in [prompt : NamePrompts, provider : {"huggingface"},
                    hf_model : {"FLUX.1-schnell"}, size : {"1024x1024"},
                    quality : {"standard"}, model : {"dall-e-2"},
                    output_dir : {"~/Downloads"}]
    /\ args = cmdline
    /\ api_keys = NoKeys
    /\ result = None
    /\ stdout = <<>>
    /\ exit_arg = None
    /\ exit_status = None
    /\ calls = <<>>
    /\ hf_posts = <<>>
    /\ hf_sleeps = 0
    /\ response = None
    /\ api_requests = <<>>
    /\ image_data = None
    /\ files = {}
    /\ KeysIdle

\* lines 102-110: the path generate_image_huggingface saves to
NameHuggingFace ==
    /\ pc = "name"
    /\ result' = Some(OutputPath(args.output_dir, HFFilename(args.prompt)))
    /\ pc' = "named_hf"
    /\ UNCHANGED <<cmdline, args, api_keys, stdout, exit_arg, exit_status, calls,
                   hf_posts, hf_sleeps, response, api_requests, image_data, files>>
    /\ UNCHANGED keyVars

\* lines 173-183: the path generate_image_openai saves to
NameOpenAI ==
    /\ pc = "name"
    /\ result' = Some(OutputPath(args.output_dir, OpenAIFilename(args.prompt)))
    /\ pc' = "named_openai"
    /\ UNCHANGED <<cmdline, args, api_keys, stdout, exit_arg, exit_status, calls,
                   hf_posts, hf_sleeps, response, api_requests, image_data, files>>
    /\ UNCHANGED keyVars

NextName == NameHuggingFace \/ NameOpenAI

SpecName == InitName /\ [][NextName]_vars

---------------------------------------------------------------------------
(* Properties. *)

\* some printed line is this one
Printed(line) == \E i \in DOMAIN stdout : stdout[i] = line

\* some printed line has this text, whatever is interpolated into it
PrintedText(msg) == \E i \in DOMAIN stdout : stdout[i].msg = msg

PrintedAll(lines) == \A j \in DOMAIN lines : Printed(lines[j])

PaidCalls == {i \in DOMAIN calls : calls[i].routine = "generate_image_openai"}

FreeCalls == {i \in DOMAIN calls : calls[i].routine = "generate_image_huggingface"}

\* C1: whatever the mode, the credentials and the outcome of the provider call,
\* a run makes at most one provider call, and under the modes auto and
\* huggingface the paid provider is never called and no request reaches it.
C1_AtMostOneCallPaidNeverAutomatic ==
    /\ Len(calls) <= 1
    /\ Len(api_requests) <= 1
    /\ cmdline.provider \in FreeModes => PaidCalls = {} /\ api_requests = <<>>

\* the free call failed under auto with an openai key at hand, and the run ended
C1_Witness ==
    /\ pc = "done"
    /\ cmdline.provider = "auto"
    /\ Truthy(api_keys.openai)
    /\ FreeCalls # {}
    /\ result = None

\* C2: a run ends with the status given to sys.exit; the status is 0 exactly
\* when the one provider call returned a path and 1 otherwise; no run stops
\* before it has exited and main() never returns without a status.
C2_ExitStatusChosen ==
    /\ pc = "done" =>
          /\ exit_arg # None
          /\ exit_status = exit_arg
          /\ exit_status \in {Some(0), Some(1)}
          /\ exit_status = Some(0) <=> (Len(calls) = 1 /\ result # None)
    /\ pc # "done" => exit_status = None /\ ENABLED Next

\* a run that ended with status 1 after a write error in a provider routine
C2_Witness ==
    /\ pc = "done"
    /\ exit_status = Some(1)
    /\ image_data # None
    /\ result = None

\* the environment names that carry a key
KeyNames(key) ==
    IF key = "openai" THEN {"OPENAI_API_KEY"} ELSE {"HUGGINGFACE_API_KEY", "HF_TOKEN"}

\* the non-empty values the process environment holds for a key
EnvSupplies(key) == {environ[n][1] : n \in {m \in KeyNames(key) : Truthy(environ[m])}}

\* the non-empty values the .env file holds for a key
FileSupplies(key) ==
    IF env_file = None
    THEN {}
    ELSE {LineValue(l) :
            l \in {m \in {env_file[1][i] : i \in DOMAIN env_file[1]} :
                     /\ \E n \in KeyNames(key) : StartsWith(m, <<n, "=">>)
                     /\ LineValue(m) # <<>>}}

\* the non-empty values the 'env' mapping of cli-config.json holds for a key
ConfigSupplies(key) ==
    IF cursor_config.kind = "env"
    THEN {cursor_config.env[n][1] : n \in {m \in KeyNames(key) : Truthy(cursor_config.env[m])}}
    ELSE {}

Supplies(key) == <<EnvSupplies(key), FileSupplies(key), ConfigSupplies(key)>>

\* C3: for each key, load_api_keys returns a non-empty value of the first of
\* the three sources (environment, .env, cli-config.json) that holds one for
\* the key, whatever the later sources hold and whether or not an earlier one
\* holds an empty value; when no source holds one, the key returned is falsy.
C3_FirstNonEmptySourceWins ==
    pc = "keys_returned" =>
        \A key \in {"openai", "huggingface"} :
            LET s == Supplies(key)
            IN  IF \A i \in 1..3 : s[i] = {}
                THEN ~Truthy(keys[key])
                ELSE LET first == CHOOSE i \in 1..3 : s[i] # {} /\ \A j \in 1..(i - 1) : s[j] = {}
                     IN  Truthy(keys[key]) /\ keys[key][1] \in s[first]

\* the environment holds an empty openai key, the .env file and the
\* configuration file each hold a value, and the .env file's is returned
C3_Witness ==
    /\ pc = "keys_returned"
    /\ environ["OPENAI_API_KEY"] = Some(<<>>)
    /\ FileSupplies("openai") # {}
    /\ ConfigSupplies("openai") # {}
    /\ Truthy(keys.openai)
    /\ keys.openai[1] \in FileSupplies("openai")

\* the credential the chosen mode needs is absent
RequiredCredentialMissing ==
    IF cmdline.provider \in FreeModes
    THEN ~Truthy(api_keys.huggingface)
    ELSE ~Truthy(api_keys.openai)

\* the lines that tell how to set the huggingface token up
HFSetupInstructions ==
    <<Out("Add HF_TOKEN to ~/.cursor/cli-config.json:", <<>>),
      Out("Get token: https://huggingface.co/settings/tokens", <<>>)>>

\* the lines that tell how to set the openai key up
OpenAISetupInstructions ==
    <<Out("Add OPENAI_API_KEY to ~/.cursor/cli-config.json:", <<>>),
      Out("Get key: https://platform.openai.com/api-keys", <<>>)>>

\* C4 as stated: with the needed credential absent no provider is called, the
\* run exits 1 and the output holds the setup instructions of the missing
\* credential, under auto those of the huggingface token and the suggestion of
\* the paid provider.
C4_AsStated ==
    RequiredCredentialMissing =>
        /\ calls = <<>> /\ hf_posts = <<>> /\ api_requests = <<>>
        /\ pc = "done" =>
              /\ exit_status = Some(1)
              /\ cmdline.provider \in FreeModes => PrintedAll(HFSetupInstructions)
              /\ cmdline.provider = "openai" => PrintedAll(OpenAISetupInstructions)
              /\ cmdline.provider = "auto" => Printed(SuggestedCommand(cmdline.prompt))

\* C4, amended: with the needed credential absent no provider is called and
\* the run exits 1; under huggingface and openai the output holds the setup
\* instructions of the missing credential; under auto it reports the missing
\* huggingface token and suggests the paid provider, and holds no setup
\* instructions for the huggingface token.
C4_MissingCredential ==
    RequiredCredentialMissing =>
        /\ calls = <<>> /\ hf_posts = <<>> /\ api_requests = <<>>
        /\ pc = "done" =>
              /\ exit_status = Some(1)
              /\ cmdline.provider = "huggingface" => PrintedAll(HFSetupInstructions)
              /\ cmdline.provider = "openai" => PrintedAll(OpenAISetupInstructions)
              /\ cmdline.provider = "auto" =>
                    /\ PrintedText("HuggingFace token not found")
                    /\ PrintedText("You can try paid OpenAI DALL-E API:")
                    /\ Printed(SuggestedCommand(cmdline.prompt))
                    /\ \A j \in DOMAIN HFSetupInstructions : ~Printed(HFSetupInstructions[j])

\* a run under auto with no huggingface token, ended
C4_Witness ==
    /\ pc = "done"
    /\ cmdline.provider = "auto"
    /\ ~Truthy(api_keys.huggingface)
    /\ Truthy(api_keys.openai)
    /\ PrintedText("HuggingFace token not found")

\* the free provider was called and its routine returned None
FreeCallFailed == pc \in {"exit", "done"} /\ FreeCalls # {} /\ result = None

\* C5: when the free call fails under auto, the run exits 1 without calling
\* the paid provider and prints the suggested command with the prompt as it
\* was given; when it fails under huggingface, the run exits 1 and prints no
\* such command.
C5_SuggestionOnlyUnderAuto ==
    FreeCallFailed =>
        /\ PaidCalls = {} /\ api_requests = <<>>
        /\ pc = "done" => exit_status = Some(1)
        /\ cmdline.provider = "auto" => Printed(SuggestedCommand(cmdline.prompt))
        /\ cmdline.provider = "huggingface" => ~PrintedText(SuggestedCommand(<<>>).msg)

\* the free call failed under auto for the prompt Cat/Space?? 2024, which
\* sanitising would change
C5_Witness ==
    /\ FreeCallFailed
    /\ pc = "done"
    /\ cmdline.provider = "auto"
    /\ cmdline.prompt = CatPrompt
    /\ hf_posts # <<>>

QualityWarning == "Warning: DALL-E 2 doesn't support HD quality, using standard"

SizeWarning == "Warning: DALL-E 2 doesn't support large sizes, using 1024x1024"

\* the position of the first printed line with this text, 0 when there is none
FirstPrinted(msg) ==
    IF PrintedText(msg)
    THEN CHOOSE i \in DOMAIN stdout :
            stdout[i].msg = msg /\ \A j \in 1..(i - 1) : stdout[j].msg # msg
    ELSE 0

\* C6: under openai with a key, the paid routine is called with quality
\* standard in place of hd and size 1024x1024 in place of 1792x1024 or
\* 1024x1792 when the model is dall-e-2, each with its warning printed before
\* the routine starts; the request sent carries the corrected size; any other
\* combination is passed on as given, with no warning.
C6_CorrectedBeforeDispatch ==
    \A i \in PaidCalls :
        LET hd == cmdline.model = "dall-e-2" /\ cmdline.quality = "hd"
            large == cmdline.model = "dall-e-2" /\ cmdline.size \in {"1792x1024", "1024x1792"}
            started == FirstPrinted("Generating image via OpenAI DALL-E...")
        IN  /\ calls[i].model = cmdline.model
            /\ calls[i].prompt = cmdline.prompt
            /\ calls[i].quality = IF hd THEN "standard" ELSE cmdline.quality
            /\ calls[i].size = IF large THEN "1024x1024" ELSE cmdline.size
            /\ PrintedText(QualityWarning) <=> hd
            /\ PrintedText(SizeWarning) <=> large
            /\ hd => FirstPrinted(QualityWarning) < started
            /\ large => FirstPrinted(SizeWarning) < started
            /\ \A r \in DOMAIN api_requests :
                  /\ api_requests[r].size = calls[i].size
                  /\ api_requests[r].model = calls[i].model
                  /\ "quality" \in DOMAIN api_requests[r] =>
                        api_requests[r].quality = calls[i].quality

\* dall-e-2 asked for in hd at 1792x1024, and the request sent
C6_Witness ==
    /\ PaidCalls # {}
    /\ cmdline.model = "dall-e-2"
    /\ cmdline.quality = "hd"
    /\ cmdline.size = "1792x1024"
    /\ api_requests # <<>>
    /\ api_requests[1].size = "1024x1024"

\* C7: the free routine sends at most two POSTs; the second is sent only
\* after a first 503 and one wait, and is the first request again; a first
\* status other than 503 is not retried; whatever the second POST returns
\* there is no third, and unless it returns 200 the routine returns None.
C7_OneRetryAfter503 ==
    /\ Len(hf_posts) <= 2
    /\ hf_sleeps = (IF Len(hf_posts) = 2 THEN 1 ELSE 0)
    /\ Len(hf_posts) = 2 =>
          /\ hf_posts[1].status = Some(503)
          /\ hf_posts[2].request = hf_posts[1].request
    /\ pc \in {"hf_check", "hf_save", "hf_returned", "exit", "done"} /\ hf_posts # <<>> =>
          /\ hf_posts[1].status = Some(503) <=> Len(hf_posts) = 2
          /\ hf_posts[Len(hf_posts)].status # Some(200) /\ pc \in {"hf_returned", "exit", "done"}
                => result = None /\ files = {}

\* a second 503 answered the retry, and the run ended
C7_Witness ==
    /\ pc = "done"
    /\ Len(hf_posts) = 2
    /\ hf_posts[2].status = Some(503)
    /\ hf_sleeps = 1

\* C8: once a run has ended, a returned path names a file that exists and is
\* not empty, and a routine that returned None has created no file.
C8_AsStated ==
    pc = "done" /\ calls # <<>> =>
        IF result # None
        THEN /\ exit_status = Some(0)
             /\ \E f \in files : f.path = result[1] /\ f.bytes > 0
        ELSE files = {}

\* Cat_Space_2024
CatSafeAsStated ==
    <<"C", "a", "t", "_", "S", "p", "a", "c", "e", "_", "2", "0", "2", "4">>

\* Cat_Space___2024
CatSafe ==
    <<"C", "a", "t", "_", "S", "p", "a", "c", "e", "_", "_", "_", "2", "0", "2", "4">>

\* the path computed, with the prompt's part of the name being safe
NamedWith(safe) ==
    \/ pc = "named_hf"
          /\ result = Some(<<args.output_dir, "/", Timestamp, "_HF_">> \o safe \o <<".png">>)
    \/ pc = "named_openai"
          /\ result = Some(<<args.output_dir, "/", Timestamp, "_">> \o safe \o <<".png">>)

\* the prompt's part of the path computed: what lies between the infix and
\* the extension
SafePart == SubSeq(result[1], 5, Len(result[1]) - 1)

\* C9 as stated: for the prompt Cat/Space?? 2024 both routines name the file
\* <timestamp>[_HF]_Cat_Space_2024.png.
C9_AsStated ==
    pc \in {"named_hf", "named_openai"} /\ args.prompt = CatPrompt => NamedWith(CatSafeAsStated)

\* C9, amended: for the prompt Cat/Space?? 2024 both routines name the file
\* <timestamp>[_HF]_Cat_Space___2024.png, each of the three characters / ? ?
\* and the space giving one underscore; for any prompt the prompt's part of
\* the name has at most 50 characters, all of them ASCII alphanumerics,
\* hyphens or underscores.
C9_CatSpaceName ==
    pc \in {"named_hf", "named_openai"} =>
        /\ args.prompt = CatPrompt => NamedWith(CatSafe)
        /\ NamedWith(SafePart)
        /\ Len(SafePart) <= 50
        /\ Len(SafePart) <= Len(args.prompt)
        /\ \A i \in DOMAIN SafePart : SafePart[i] \in AsciiAlnum \cup {"-", "_"}

\* the paid routine has named the file for the prompt Cat/Space?? 2024
C9_Witness ==
    /\ pc = "named_openai"
    /\ args.prompt = CatPrompt
    /\ NamedWith(CatSafe)

\* the sizes each paid model takes
SupportedSizes(model) ==
    IF model = "dall-e-3"
    THEN {"1024x1024", "1792x1024", "1024x1792"}
    ELSE {"256x256", "512x512", "1024x1024"}

\* C10: every call of the paid routine carries a size its model takes, and
\* quality hd only with dall-e-3.
C10_AsStated ==
    \A i \in PaidCalls :
        /\ calls[i].size \in SupportedSizes(calls[i].model)
        /\ calls[i].quality = "hd" => calls[i].model = "dall-e-3"

===========================================================================
